---- MODULE Spec2Model ----
(***************************************************************************)
(* AndroMoney2PTA: conversion of AndroMoney CSV rows into ledger blocks.   *)
(*                                                                         *)
(* Text is modelled as a sequence of atoms.  An atom is a one-character    *)
(* string (digits, punctuation, white space) or a word standing for a run  *)
(* of non-white-space characters.  String concatenation is \o.             *)
(* A datetime is the tuple <<year, month, day, hour, minute>>.             *)
(* A decimal amount is valued in units of 1e-7.                            *)
(***************************************************************************)
EXTENDS Integers, Sequences, FiniteSets, TLC

VARIABLES rows,       \* the rows the csv reader yields (after the ignored rows)
          init_date,  \* --init_date
          pos,        \* number of rows already taken from the csv reader
          curr_date,  \* AndroMoneyReader.curr_date
          file,       \* the text written to the output file so far
          pc,         \* "running", "done" (loop ended), "aborted" (exception)
          err,        \* the exception that ended the run, or "none"
          emitted,    \* history: the rows AndroMoneyReader.__next__ returned
          src,        \* history: src[i] is the index in rows of emitted[i]
          blocks,     \* history: blocks[i] is the text the i-th write appended
          calls,      \* number of direct calls of LedgerWriter methods made
          last_call   \* history: the arguments of the last direct call

vars == <<rows, init_date, pos, curr_date, file, pc, err, emitted, src, blocks,
          calls, last_call>>

\* Python's None.  An optional integer n is None or <<n>>; an optional
\* datetime is None or the datetime tuple.
None == <<>>

-----------------------------------------------------------------------------
(* Bounds *)

MaxRows == 3
MaxCalls == 2

-----------------------------------------------------------------------------
(* Python string and number primitives *)

Digits == {"0", "1", "2", "3", "4", "5", "6", "7", "8", "9"}

DigitVal(c) ==
    CASE c = "0" -> 0 [] c = "1" -> 1 [] c = "2" -> 2 [] c = "3" -> 3
      [] c = "4" -> 4 [] c = "5" -> 5 [] c = "6" -> 6 [] c = "7" -> 7
      [] c = "8" -> 8 [] c = "9" -> 9

DigitChar(n) ==
    CASE n = 0 -> "0" [] n = 1 -> "1" [] n = 2 -> "2" [] n = 3 -> "3"
      [] n = 4 -> "4" [] n = 5 -> "5" [] n = 6 -> "6" [] n = 7 -> "7"
      [] n = 8 -> "8" [] n = 9 -> "9"

AllDigits(s) == \A i \in 1..Len(s) : s[i] \in Digits

RECURSIVE DigitsValue(_)
DigitsValue(s) ==
    IF s = <<>> THEN 0
    ELSE 10 * DigitsValue(SubSeq(s, 1, Len(s) - 1)) + DigitVal(s[Len(s)])

\* int(s) for a string of decimal digits; anything else raises ValueError
\* (ok = FALSE)
IntOf(s) ==
    IF s # <<>> /\ AllDigits(s) THEN [ok |-> TRUE, v |-> DigitsValue(s)]
    ELSE [ok |-> FALSE, v |-> 0]

RECURSIVE Pow10(_)
Pow10(n) == IF n = 0 THEN 1 ELSE 10 * Pow10(n - 1)

FracDigits == 7

\* position of the first "." in s, or 0
DotIndex(s) ==
    IF \E i \in 1..Len(s) : s[i] = "."
    THEN CHOOSE i \in 1..Len(s) : s[i] = "." /\ \A j \in 1..(i - 1) : s[j] # "."
    ELSE 0

\* float(s) for [-]digits[.digits], in units of 1e-7; else ValueError
\* (ok = FALSE)
UnsignedFloatOf(s) ==
    LET d == DotIndex(s)
        ip == IF d = 0 THEN s ELSE SubSeq(s, 1, d - 1)
        fp == IF d = 0 THEN <<>> ELSE SubSeq(s, d + 1, Len(s))
    IN  IF (ip = <<>> /\ fp = <<>>) \/ ~AllDigits(ip) \/ ~AllDigits(fp)
           \/ Len(fp) > FracDigits
        THEN [ok |-> FALSE, v |-> 0]
        ELSE [ok |-> TRUE,
              v |-> DigitsValue(ip) * Pow10(FracDigits)
                    + DigitsValue(fp) * Pow10(FracDigits - Len(fp))]

FloatOf(s) ==
    IF s # <<>> /\ s[1] = "-"
    THEN LET u == UnsignedFloatOf(Tail(s))
         IN  [ok |-> u.ok, v |-> 0 - u.v]
    ELSE UnsignedFloatOf(s)

\* 1e-6 in units of 1e-7
SkipThreshold == 10

\* str.zfill(width)
RECURSIVE Zfill(_, _)
Zfill(s, width) == IF Len(s) >= width THEN s ELSE Zfill(<<"0">> \o s, width)

\* a non-negative integer printed with at least width digits (%02d, %04d)
RECURSIVE NatStr(_)
NatStr(n) ==
    IF n < 10 THEN <<DigitChar(n)>>
    ELSE NatStr(n \div 10) \o <<DigitChar(n % 10)>>

Pad(n, width) == Zfill(NatStr(n), width)

\* str(status) of an int
StrOfInt(n) == NatStr(n)

DaysIn(y, m) ==
    IF m \in {4, 6, 9, 11} THEN 30
    ELSE IF m = 2
         THEN (IF (y % 4 = 0 /\ y % 100 # 0) \/ y % 400 = 0 THEN 29 ELSE 28)
         ELSE 31

\* datetime.strptime(s, '%Y%m%d%H%M') on a string of twelve characters
Strptime(s) ==
    IF Len(s) # 12 \/ ~AllDigits(s) THEN [ok |-> FALSE, v |-> <<>>]
    ELSE LET y == DigitsValue(SubSeq(s, 1, 4))
             m == DigitsValue(SubSeq(s, 5, 6))
             d == DigitsValue(SubSeq(s, 7, 8))
             H == DigitsValue(SubSeq(s, 9, 10))
             M == DigitsValue(SubSeq(s, 11, 12))
         IN  IF y >= 1 /\ m \in 1..12 /\ d >= 1 /\ d <= DaysIn(y, m)
                /\ H \in 0..23 /\ M \in 0..59
             THEN [ok |-> TRUE, v |-> <<y, m, d, H, M>>]
             ELSE [ok |-> FALSE, v |-> <<>>]

\* strftime("%Y-%m-%d")
StrfDate(t) == Pad(t[1], 4) \o <<"-">> \o Pad(t[2], 2) \o <<"-">> \o Pad(t[3], 2)

\* strftime('%H%M')
StrfTime(t) == Pad(t[4], 2) \o Pad(t[5], 2)

WhiteSpace == {" ", "\n", "\t"}

\* ' '.join(s.split()) and '_'.join(s.split())
RECURSIVE JoinSplit(_, _)
JoinSplit(sep, s) ==
    IF s = <<>> THEN <<>>
    ELSE IF Head(s) \in WhiteSpace THEN JoinSplit(sep, Tail(s))
    ELSE IF \E i \in 1..Len(s) : s[i] \in WhiteSpace
    THEN LET k == CHOOSE i \in 1..Len(s) :
                     s[i] \in WhiteSpace /\ \A j \in 1..(i - 1) : s[j] \notin WhiteSpace
             rest == JoinSplit(sep, SubSeq(s, k, Len(s)))
         IN  SubSeq(s, 1, k - 1) \o (IF rest = <<>> THEN <<>> ELSE <<sep>> \o rest)
    ELSE s

\* ' '.join(s.split('\n'))
NewlinesToSpaces(s) == [i \in 1..Len(s) |-> IF s[i] = "\n" THEN " " ELSE s[i]]

-----------------------------------------------------------------------------
(* The input rows *)

D2016 == <<"2", "0", "1", "6", "0", "9", "0", "1">>
D2020 == <<"2", "0", "2", "0", "0", "2", "2", "9">>

SYSTEM == <<"SYSTEM">>
INIT_AMOUNT == <<"INIT_AMOUNT">>
Transfer == <<"Transfer">>
Income == <<"Income">>
Expense == <<"Expense">>

Row(cat, sub, amt, date, tm, st, py) ==
    [id |-> <<"7">>, currency |-> <<"TWD">>, amount |-> amt, category |-> cat,
     sub_category |-> sub, date |-> date, from_account |-> <<"Cash">>,
     to_account |-> <<"Bank">>, remark |-> <<>>, periodic |-> <<>>,
     project |-> <<>>, payee |-> py, uid |-> <<"u1">>, time |-> tm,
     status |-> st]

Payees == {<<"Bob">>, <<"Eve">>}

OpeningRows ==
    { Row(SYSTEM, INIT_AMOUNT, <<"0", ".", "0", "0", "0", "0", "0", "1", "1">>, D2016,
          <<"1", "2", "3", "0">>, <<"1">>, <<"Eve">>),
      Row(SYSTEM, INIT_AMOUNT, <<"0", ".", "0", "0", "0", "0", "0", "1">>, D2016,
          <<"5">>, <<"0">>, <<"Eve">>),
      Row(SYSTEM, INIT_AMOUNT, <<"-", "5">>, D2020, <<"9", "3", "0">>, <<>>, <<"Bob">>),
      Row(SYSTEM, INIT_AMOUNT, <<"0">>, D2016, <<"5">>, <<"2">>, <<"Bob">>),
      Row(SYSTEM, <<"Lunch">>, <<"0", ".", "0", "1">>, D2016, <<"5">>, <<>>, <<"Bob">>) }

TransferRows ==
    { [Row(Transfer, <<"Move">>, <<"0">>, D2020, <<"1", "2", "3", "0">>, <<"1">>, <<"Eve">>)
           EXCEPT !.to_account = <<"My", " ", "\t", "Bank">>] }

IncomeRows ==
    { [Row(Income, <<"Salary">>, <<"8">>, D2016, <<"5">>, <<"0">>, <<"Bob">>)
           EXCEPT !.project = <<"Trip">>] }

ExpenseRows ==
    { [Row(<<"Food">>, <<"Lunch">>, <<"0">>, D2016, <<"9", "3", "0">>, <<>>, <<"Bob">>)
           EXCEPT !.remark = <<"a", "\n", "b">>, !.from_account = <<"My", " ", " ", "Card">>],
      Row(Expense, <<"Lunch">>, <<"1", "2", ".", "5">>, D2020, <<"5">>, <<"1">>, <<"Eve">>),
      Row(<<>>, <<>>, <<"x">>, D2020, <<"9", "3", "0">>, <<"0">>, <<"Eve">>),
      Row(<<"Food">>, <<"Lunch">>, <<"8">>, D2020, <<"1", "2", "3", "0">>, <<"2">>, <<"Bob">>),
      Row(<<"Food">>, <<"Lunch">>, <<"8">>, D2020, <<"9", "9">>, <<>>, <<"Bob">>) }

Rows == OpeningRows \cup TransferRows \cup IncomeRows \cup ExpenseRows

InitDates == { <<2016, 8, 24, 0, 0>>, <<2020, 2, 29, 0, 0>> }

RECURSIVE SeqsUpTo(_, _)
SeqsUpTo(S, n) ==
    IF n = 0 THEN {<<>>}
    ELSE LET shorter == SeqsUpTo(S, n - 1)
         IN  shorter \cup {Append(q, x) : q \in {t \in shorter : Len(t) = n - 1}, x \in S}

-----------------------------------------------------------------------------
(* AndroMoneyReader *)

FROM_ACCOUNT_TYPE ==
    [c \in {SYSTEM, Transfer, Income, Expense} |->
        CASE c = SYSTEM -> <<"Equity">>
          [] c = Transfer -> <<"Asset">>
          [] c = Income -> <<"Income">>
          [] c = Expense -> <<"Asset">>]

TO_ACCOUNT_TYPE_TransferToExpenses ==
    [c \in {SYSTEM, Transfer, Income, Expense} |->
        CASE c = SYSTEM -> <<"Asset">>
          [] c = Transfer -> <<"Expenses">>
          [] c = Income -> <<"Asset">>
          [] c = Expense -> <<"Expenses">>]

TO_ACCOUNT_TYPE ==
    [c \in {SYSTEM, Transfer, Income, Expense} |->
        CASE c = SYSTEM -> <<"Asset">>
          [] c = Transfer -> <<"Asset">>
          [] c = Income -> <<"Asset">>
          [] c = Expense -> <<"Expenses">>]

\* frames of __next__ the interpreter allows on the stack (CPython's
\* recursion limit, 1000 by default, scaled down)
RecursionLimit == 2

\* the result dict of __next__ (lines 48-63), all fields parsed
ParseRow(row) ==
    LET id == IntOf(row.id)
        tm == Strptime(row.date \o Zfill(row.time, 4))
        st == IF row.status # <<>> THEN IntOf(row.status) ELSE [ok |-> TRUE, v |-> 0]
    IN  [ok |-> id.ok /\ tm.ok /\ st.ok,
         v |-> [id |-> id.v, currency |-> row.currency, amount |-> row.amount,
                category |-> row.category, sub_category |-> row.sub_category,
                from_account |-> row.from_account, to_account |-> row.to_account,
                remark |-> row.remark, periodic |-> row.periodic,
                project |-> row.project, payee |-> row.payee, uid |-> row.uid,
                time |-> tm.v,
                status |-> IF row.status # <<>> THEN <<st.v>> ELSE None]]

\* del result['sub_category']
DelSubCategory(r) == [k \in DOMAIN r \ {"sub_category"} |-> r[k]]

OpeningResult_OwnTime(r, cd) ==
    [r EXCEPT !.payee = r.sub_category,
              !.from_account = <<"Opening", " ", "Balances">>]

\* lines 73-75
OpeningResult(r, cd) ==
    [r EXCEPT !.payee = r.sub_category, !.time = cd,
              !.from_account = <<"Opening", " ", "Balances">>]

OtherResult_BareSubCategory(r) ==
    IF r.category = Transfer THEN [r EXCEPT !.payee = r.sub_category]
    ELSE IF r.category = Income THEN [r EXCEPT !.from_account = r.sub_category]
    ELSE [r EXCEPT !.to_account = r.sub_category, !.category = Expense]

OtherResult_TransferKeepsPayee(r) ==
    IF r.category = Transfer THEN r
    ELSE IF r.category = Income THEN [r EXCEPT !.from_account = r.sub_category]
    ELSE [r EXCEPT !.to_account = r.category \o <<":">> \o r.sub_category,
                   !.category = Expense]

\* lines 79-85
OtherResult(r) ==
    IF r.category = Transfer THEN [r EXCEPT !.payee = r.sub_category]
    ELSE IF r.category = Income THEN [r EXCEPT !.from_account = r.sub_category]
    ELSE [r EXCEPT !.to_account = r.category \o <<":">> \o r.sub_category,
                   !.category = Expense]

StatusOk_AcceptsTwo(r) == r.status \in {None, <<0>>, <<1>>, <<2>>}

\* line 66
StatusOk(r) == r.status \in {None, <<0>>, <<1>>}

IsZeroAmount_Strict(amount) == FloatOf(amount).v < SkipThreshold

\* line 70
IsZeroAmount(amount) == FloatOf(amount).v <= SkipThreshold

NewCurrDate_EveryRow(r, cd) == r.time

\* self.curr_date after the row is classified (lines 68, 77)
NewCurrDate(r, cd) == IF r.category = SYSTEM THEN cd ELSE r.time

\* the value a call of __next__ ends with: kind is "row" (a result is
\* returned) or the exception raised; pos and curr_date are the reader's
\* state afterwards
Outcome(kind, p, cd, result) ==
    [kind |-> kind, pos |-> p, curr_date |-> cd, result |-> result]

\* AndroMoneyReader.__next__ entered as the depth-th nested frame, with p
\* rows of rs already consumed and curr_date = cd
RECURSIVE Next__(_, _, _, _)
Next__(rs, p, cd, depth) ==
    IF depth > RecursionLimit THEN Outcome("RecursionError", p, cd, <<>>)
    ELSE IF p >= Len(rs) THEN Outcome("StopIteration", p, cd, <<>>)
    ELSE LET parsed == ParseRow(rs[p + 1])
             r == parsed.v
         IN  IF ~parsed.ok THEN Outcome("ValueError", p + 1, cd, <<>>)
             ELSE IF ~StatusOk(r)
             THEN Outcome("AssertionError", p + 1, cd, <<>>)
             ELSE IF r.category = SYSTEM
             THEN IF r.sub_category # INIT_AMOUNT
                  THEN Outcome("AssertionError", p + 1, cd, <<>>)
                  ELSE IF ~FloatOf(r.amount).ok
                  THEN Outcome("ValueError", p + 1, cd, <<>>)
                  ELSE IF IsZeroAmount(r.amount)
                  THEN Next__(rs, p + 1, cd, depth + 1)
                  ELSE Outcome("row", p + 1, NewCurrDate(r, cd),
                               DelSubCategory(OpeningResult(r, cd)))
             ELSE Outcome("row", p + 1, NewCurrDate(r, cd),
                          DelSubCategory(OtherResult(r)))

-----------------------------------------------------------------------------
(* LedgerWriter *)

Indent == 4

Spaces(n) == [i \in 1..n |-> " "]

\* LedgerWriter.write_tag
write_tag(f, tag, value) ==
    f \o Spaces(Indent) \o <<";", " ", ":">> \o JoinSplit("_", tag) \o <<":", " ">>
      \o NewlinesToSpaces(value) \o <<"\n">>

\* LedgerWriter.write_single_account; returns the text and the exception
write_single_account(f, account, amount, effective_date) ==
    LET f1 == f \o Spaces(Indent) \o JoinSplit(" ", account)
        f2 == IF amount # None
              THEN f1 \o <<" ", " ">> \o amount[1] \o <<" ">> \o amount[2]
              ELSE f1
    IN  IF effective_date # None
        THEN [file |-> f2, err |-> "NotImplementedError"]
        ELSE [file |-> f2 \o <<"\n">>, err |-> "none"]

\* the loop over changed_account (lines 119-123)
RECURSIVE WriteAccounts(_, _)
WriteAccounts(f, accounts) ==
    IF accounts = <<>> THEN [file |-> f, err |-> "none"]
    ELSE LET account == Head(accounts)
         IN  IF "effective_dates" \in DOMAIN account
             THEN [file |-> f, err |-> "NotImplementedError"]
             ELSE LET w == write_single_account(f, account.account,
                              IF "amount" \in DOMAIN account THEN account.amount ELSE None,
                              None)
                  IN  IF w.err # "none" THEN w
                      ELSE WriteAccounts(w.file, Tail(accounts))

\* the loop over tags (lines 125-126); tags is a sequence of <<tag, value>>
RECURSIVE WriteTags(_, _)
WriteTags(f, tags) ==
    IF tags = <<>> THEN f
    ELSE WriteTags(write_tag(f, Head(tags)[1], Head(tags)[2]), Tail(tags))

\* the exception line 115 raises: LedgerWriter has no attribute 'file'
TitleEffectiveDateError == "AttributeError"

\* LedgerWriter.write; returns the text and the exception
write(f, transaction_date, payee, effective_date, changed_account, tags) ==
    LET f1 == f \o StrfDate(transaction_date)
    IN  IF effective_date # None
        THEN [file |-> f1, err |-> TitleEffectiveDateError]
        ELSE LET f2 == f1 \o <<" ", "*", " ">> \o payee \o <<"\n">>
                 w == WriteAccounts(f2, changed_account)
             IN  IF w.err # "none" THEN w
                 ELSE [file |-> WriteTags(w.file, tags) \o <<"\n">>, err |-> "none"]

-----------------------------------------------------------------------------
(* generateLedger *)

\* lines 164-169
ChangedAccount(row) ==
    << [account |-> TO_ACCOUNT_TYPE[row.category] \o <<":">> \o row.to_account,
        amount |-> <<row.amount, row.currency>>],
       [account |-> FROM_ACCOUNT_TYPE[row.category] \o <<":">> \o row.from_account] >>

\* lines 171-180
Tags(row) ==
    << <<(<<"AndroMoney_uid">>), row.uid>>,
       <<(<<"AndroMoney_time">>), StrfTime(row.time)>> >>
    \o (IF row.status # None
        THEN << <<(<<"AndroMoney_status">>), StrOfInt(row.status[1])>> >> ELSE <<>>)
    \o (IF row.project # <<>>
        THEN << <<(<<"AndroMoney_project">>), row.project>> >> ELSE <<>>)
    \o (IF row.remark # <<>>
        THEN << <<(<<"AndroMoney_remark">>), row.remark>> >> ELSE <<>>)

\* the body of the for loop (lines 162-182) for one row the reader returned
WriteRow(f, row) ==
    IF row.category \notin DOMAIN TO_ACCOUNT_TYPE
    THEN [file |-> f, err |-> "KeyError"]
    ELSE write(f, row.time, row.payee, None, ChangedAccount(row), Tags(row))

\* generateLedger run to its end on the rows rs: the text written, the rows
\* the reader returned and the exception that ended the run ("none": the
\* loop ended)
RECURSIVE RunAll(_, _, _, _, _)
RunAll(rs, p, cd, f, em) ==
    LET o == Next__(rs, p, cd, 1)
    IN  IF o.kind = "row"
        THEN LET w == WriteRow(f, o.result)
             IN  IF w.err = "none"
                 THEN RunAll(rs, o.pos, o.curr_date, w.file, Append(em, o.result))
                 ELSE [file |-> w.file, emitted |-> Append(em, o.result), err |-> w.err]
        ELSE [file |-> f, emitted |-> em,
              err |-> IF o.kind = "StopIteration" THEN "none" ELSE o.kind]

generateLedger(rs, date) == RunAll(rs, 0, date, <<>>, <<>>)

Init ==
    /\ rows \in SeqsUpTo(Rows, MaxRows)
    /\ init_date \in InitDates
    /\ pos = 0
    /\ curr_date = init_date
    /\ file = <<>>
    /\ pc = "running"
    /\ err = "none"
    /\ emitted = <<>>
    /\ src = <<>>
    /\ blocks = <<>>
    /\ calls = 0
    /\ last_call = <<>>

\* one iteration of the for loop in which the reader returns a row
IterateRow ==
    /\ pc = "running"
    /\ LET o == Next__(rows, pos, curr_date, 1)
       IN  /\ o.kind = "row"
           /\ pos' = o.pos
           /\ curr_date' = o.curr_date
           /\ emitted' = Append(emitted, o.result)
           /\ src' = Append(src, o.pos)
           /\ LET w == WriteRow(file, o.result)
              IN  /\ file' = w.file
                  /\ blocks' = Append(blocks, SubSeq(w.file, Len(file) + 1, Len(w.file)))
                  /\ err' = w.err
                  /\ pc' = IF w.err = "none" THEN "running" ELSE "aborted"
    /\ UNCHANGED <<rows, init_date, calls, last_call>>

\* the reader is exhausted: the loop ends and the file is closed
IterateStop ==
    /\ pc = "running"
    /\ LET o == Next__(rows, pos, curr_date, 1)
       IN  /\ o.kind = "StopIteration"
           /\ pos' = o.pos
           /\ curr_date' = o.curr_date
    /\ pc' = "done"
    /\ UNCHANGED <<rows, init_date, file, err, emitted, src, blocks, calls, last_call>>

\* the reader raises: the exception propagates out of generateLedger
IterateRaise ==
    /\ pc = "running"
    /\ LET o == Next__(rows, pos, curr_date, 1)
       IN  /\ o.kind \notin {"row", "StopIteration"}
           /\ pos' = o.pos
           /\ curr_date' = o.curr_date
           /\ err' = o.kind
    /\ pc' = "aborted"
    /\ UNCHANGED <<rows, init_date, file, emitted, src, blocks, calls, last_call>>

Next == IterateRow \/ IterateStop \/ IterateRaise

Spec == Init /\ [][Next]_vars

-----------------------------------------------------------------------------
(* LedgerWriter called directly, with any of the arguments its signature   *)
(* allows                                                                  *)

EffectiveDates == {None, <<2021, 3, 5, 0, 0>>}

Accounts ==
    { [account |-> <<"Expenses", ":", "Food">>, amount |-> <<(<<"8">>), (<<"USD">>)>>],
      [account |-> <<"Asset", ":", "My", " ", " ", "Bank">>],
      [account |-> <<"Asset", ":", "Cash">>,
       effective_dates |-> << <<2021, 3, 5, 0, 0>> >>] }

MaxAccounts == 2

TagLists == { <<>>, << <<(<<"AndroMoney", " ", "uid">>), (<<"1", "\n", "2">>)>> >> }

InitWriter ==
    /\ rows = <<>>
    /\ init_date \in InitDates
    /\ pos = 0
    /\ curr_date = init_date
    /\ file = <<>>
    /\ pc = "running"
    /\ err = "none"
    /\ emitted = <<>>
    /\ src = <<>>
    /\ blocks = <<>>
    /\ calls = 0
    /\ last_call = <<>>

\* writer.write(transaction_date, payee, effective_date, changed_account, tags)
WriteCall ==
    /\ calls < MaxCalls
    /\ \E payee \in Payees, effective_date \in EffectiveDates,
          changed_account \in SeqsUpTo(Accounts, MaxAccounts), tags \in TagLists :
          LET w == write(file, init_date, payee, effective_date, changed_account, tags)
          IN  /\ file' = w.file
              /\ err' = w.err
              /\ last_call' = [method |-> "write", effective_date |-> effective_date,
                               changed_account |-> changed_account]
    /\ calls' = calls + 1
    /\ UNCHANGED <<rows, init_date, pos, curr_date, pc, emitted, src, blocks>>

\* writer.write_single_account(account, amount, effective_date)
WriteSingleAccountCall ==
    /\ calls < MaxCalls
    /\ \E a \in {x \in Accounts : "effective_dates" \notin DOMAIN x},
          effective_date \in EffectiveDates :
          LET w == write_single_account(file, a.account,
                       IF "amount" \in DOMAIN a THEN a.amount ELSE None, effective_date)
          IN  /\ file' = w.file
              /\ err' = w.err
              /\ last_call' = [method |-> "write_single_account",
                               effective_date |-> effective_date,
                               changed_account |-> <<a>>]
    /\ calls' = calls + 1
    /\ UNCHANGED <<rows, init_date, pos, curr_date, pc, emitted, src, blocks>>

NextWriter == WriteCall \/ WriteSingleAccountCall

SpecWriter == InitWriter /\ [][NextWriter]_vars

-----------------------------------------------------------------------------
(* Vocabulary of the properties, stated on the input rows *)

Max(S) == CHOOSE x \in S : \A y \in S : y <= x

Range(q) == {q[i] : i \in 1..Len(q)}

IsPrefix(a, b) == Len(a) <= Len(b) /\ SubSeq(b, 1, Len(a)) = a

RECURSIVE Concat(_)
Concat(qs) == IF qs = <<>> THEN <<>> ELSE Head(qs) \o Concat(Tail(qs))

\* the lines of a text, without their newline
RECURSIVE Lines(_)
Lines(t) ==
    IF t = <<>> THEN <<>>
    ELSE IF \E i \in 1..Len(t) : t[i] = "\n"
    THEN LET k == CHOOSE i \in 1..Len(t) : t[i] = "\n" /\ \A j \in 1..(i - 1) : t[j] # "\n"
         IN  <<SubSeq(t, 1, k - 1)>> \o Lines(SubSeq(t, k + 1, Len(t)))
    ELSE <<t>>

\* the timestamp a row's own date and time fields denote
RowTimestamp(row) == Strptime(row.date \o Zfill(row.time, 4)).v

IsOpening(row) == row.category = SYSTEM

\* the status field is an integer other than 0 and 1
BadStatus(row) ==
    row.status # <<>> /\ IntOf(row.status).ok /\ IntOf(row.status).v \notin {0, 1}

\* an opening-balance row whose amount is at most 1e-6
ZeroOpening(row) ==
    IsOpening(row) /\ FloatOf(row.amount).ok /\ FloatOf(row.amount).v <= 10

\* a row that violates a parsing or integrity rule
Faulty(row) ==
    \/ ~IntOf(row.id).ok
    \/ ~Strptime(row.date \o Zfill(row.time, 4)).ok
    \/ row.status # <<>> /\ (~IntOf(row.status).ok \/ IntOf(row.status).v \notin {0, 1})
    \/ IsOpening(row) /\ (row.sub_category # INIT_AMOUNT \/ ~FloatOf(row.amount).ok)

\* row k was taken from the csv reader and passed all its checks
Processed(k) ==
    /\ k \in 1..pos
    /\ ~(pc = "aborted" /\ err \in {"ValueError", "AssertionError"} /\ k = pos)

\* the timestamp of the last row before row k that is not an opening
\* balance, or init_date when there is none
DateBefore(k) ==
    LET S == {j \in 1..(k - 1) : ~IsOpening(rows[j])}
    IN  IF S = {} THEN init_date ELSE RowTimestamp(rows[Max(S)])

\* the indices of the rows that are not zero-amount opening balances, in order
RECURSIVE NonSkipped(_, _)
NonSkipped(rs, k) ==
    IF k > Len(rs) THEN <<>>
    ELSE (IF ZeroOpening(rs[k]) THEN <<>> ELSE <<k>>) \o NonSkipped(rs, k + 1)

\* the inputs that differ from rs only in the payee column of the rows in at
PayeeVariants(rs, at) ==
    { [i \in 1..Len(rs) |-> IF i \in at THEN [rs[i] EXCEPT !.payee = f[i]] ELSE rs[i]] :
        f \in [1..Len(rs) -> Payees] }

-----------------------------------------------------------------------------
(* Properties *)

\* C1: every emitted opening-balance transaction is dated with the running
\* curr_date, which is init_date when no other kind of row precedes it and
\* otherwise the timestamp of the last preceding row of another kind; the
\* row's own date and time fields are not used.
C1_OpeningUsesCurrDate ==
    \A i \in 1..Len(emitted) :
        IsOpening(rows[src[i]]) => emitted[i].time = DateBefore(src[i])

C1_Witness ==
    \E i \in 1..Len(emitted) :
        /\ IsOpening(rows[src[i]])
        /\ emitted[i].time # RowTimestamp(rows[src[i]])
        /\ emitted[i].time # init_date
        /\ \E j \in 1..Len(emitted) : j < i /\ IsOpening(rows[src[j]])
                                      /\ emitted[j].time = init_date

\* C2: a row whose status field is an integer other than 0 and 1 aborts the
\* run with the assertion error whatever its category and amount, nothing is
\* emitted for it or after it; every emitted transaction has a status that
\* is absent, 0 or 1, absent exactly when the field is empty.
C2_BadStatusAborts ==
    /\ \A i \in 1..pos :
          (BadStatus(rows[i]) /\ ParseRow(rows[i]).ok) =>
              /\ pc = "aborted" /\ err = "AssertionError" /\ pos = i
              /\ \A j \in 1..Len(src) : src[j] < i
    /\ \A j \in 1..Len(emitted) :
          /\ emitted[j].status \in {None, <<0>>, <<1>>}
          /\ (emitted[j].status = None) <=> (rows[src[j]].status = <<>>)

C2_Witness ==
    /\ pc = "aborted" /\ err = "AssertionError" /\ pos > 1
    /\ BadStatus(rows[pos]) /\ ZeroOpening(rows[pos])
    /\ Len(emitted) > 0

\* C4: a row whose category is none of SYSTEM, Transfer, Income is emitted
\* with category "Expense", to-account "<category>:<sub-category>" and its
\* own from-account.
C4_ExpenseArchetype ==
    \A i \in 1..Len(emitted) :
        LET row == rows[src[i]]
        IN  row.category \notin {SYSTEM, Transfer, Income} =>
              /\ emitted[i].category = <<"Expense">>
              /\ emitted[i].to_account = row.category \o <<":">> \o row.sub_category
              /\ emitted[i].from_account = row.from_account

C4_Witness ==
    /\ \E i \in 1..Len(emitted) : rows[src[i]].category = <<"Expense">>
    /\ \E i \in 1..Len(emitted) : rows[src[i]].category = <<>>
    /\ \E i \in 1..Len(emitted) : rows[src[i]].category = <<"Food">>

\* the namespaces of the table of the specification: <<from, to>>
Namespaces(row) ==
    IF row.category = SYSTEM THEN <<"Equity", "Asset">>
    ELSE IF row.category = Transfer THEN <<"Asset", "Asset">>
    ELSE IF row.category = Income THEN <<"Income", "Asset">>
    ELSE <<"Asset", "Expenses">>

\* C5: every emitted transaction has one of the four categories, the
\* namespace lookup never fails, and the to-leg (second line of the block)
\* and the from-leg (third line) start with the namespace of the table.
C5_Namespaces ==
    /\ err # "KeyError"
    /\ \A i \in 1..Len(emitted) :
          emitted[i].category \in {SYSTEM, Transfer, Income, Expense}
    /\ \A i \in 1..Len(blocks) :
          LET ls == Lines(blocks[i])
              ns == Namespaces(rows[src[i]])
          IN  /\ Len(ls) >= 3
              /\ SubSeq(ls[2], 1, Indent + 2) = Spaces(Indent) \o <<ns[2], ":">>
              /\ SubSeq(ls[3], 1, Indent + 2) = Spaces(Indent) \o <<ns[1], ":">>

C5_Witness ==
    /\ Len(blocks) >= 2
    /\ \E i \in 1..Len(blocks) : rows[src[i]].category = Transfer
    /\ \E i \in 1..Len(blocks) : rows[src[i]].category = SYSTEM

\* C3: a valid opening-balance row is left out of the output if and only if
\* its amount is at most 1e-6, leaving it out raises no error and the run
\* goes on with the next row; a row of another category is never left out.
C3_SkipIsSilent ==
    \A i \in 1..pos :
        ~Faulty(rows[i]) =>
            /\ ZeroOpening(rows[i]) <=> (i \notin Range(src))
            /\ ~(pc = "aborted" /\ pos = i)

\* C6: a direct call that asks for an effective date, for the transaction
\* or for a leg, ends with NotImplementedError and not as a normal write.
C6_EffectiveDateUnsupported ==
    (/\ last_call # <<>>
     /\ \/ last_call.effective_date # None
        \/ \E i \in 1..Len(last_call.changed_account) :
              "effective_dates" \in DOMAIN last_call.changed_account[i])
    => err = "NotImplementedError"

\* the block generateLedger writes for the i-th emitted row
BlockOf(i) == WriteRow(<<>>, emitted[i]).file

\* C7 (state part): when the loop has ended, the file holds exactly one
\* block per row that is not a zero-amount opening balance, in input order,
\* the i-th block being the rendering of the i-th such row.
C7_OneBlockPerRow ==
    pc = "done" =>
        /\ src = NonSkipped(rows, 1)
        /\ Len(blocks) = Len(rows) - Cardinality({i \in 1..Len(rows) : ZeroOpening(rows[i])})
        /\ file = Concat(blocks)
        /\ \A i \in 1..Len(blocks) :
              /\ blocks[i] = BlockOf(i)
              /\ emitted[i].uid = rows[src[i]].uid
              /\ emitted[i].amount = rows[src[i]].amount
              /\ emitted[i].to_account # <<>>

\* C7: the output is append-only (no step alters or removes what was
\* written) and at completion holds one block per non-skipped row, in order.
C7_AppendOnlyOutput ==
    /\ []C7_OneBlockPerRow
    /\ [][IsPrefix(file, file') /\ IsPrefix(blocks, blocks')]_vars

C7_Witness ==
    /\ pc = "done"
    /\ Len(blocks) >= 2
    /\ Len(rows) > Len(blocks)
    /\ \E i \in 1..Len(rows) : FloatOf(rows[i].amount).v = 10 /\ IsOpening(rows[i])

\* C8: the run aborts only on a faulty row; in particular a run of
\* zero-amount opening balances at the end of the input ends in normal
\* exhaustion.
C8_AbortsOnlyOnFaultyRow ==
    (pc # "running" /\ \A i \in 1..pos : ~Faulty(rows[i]))
        => (pc = "done" /\ pos = Len(rows))

\* the timestamp of the last processed row that is not an opening balance
LastDate ==
    LET S == {j \in 1..pos : Processed(j) /\ ~IsOpening(rows[j])}
    IN  IF S = {} THEN init_date ELSE RowTimestamp(rows[Max(S)])

\* C9: curr_date is init_date or the timestamp of the last processed row
\* that is not an opening balance; it changes only when such a row is
\* returned, to that row's timestamp; opening-balance rows (emitted or
\* skipped) and rows failing the status check leave it unchanged.
C9_CurrDate ==
    /\ [](curr_date = LastDate)
    /\ [][curr_date' # curr_date =>
            /\ Len(emitted') = Len(emitted) + 1
            /\ ~IsOpening(rows[pos'])
            /\ curr_date' = RowTimestamp(rows[pos'])]_vars

C9_Witness ==
    /\ pc = "aborted" /\ err = "AssertionError"
    /\ BadStatus(rows[pos]) /\ ~IsOpening(rows[pos])
    /\ curr_date # init_date
    /\ curr_date # RowTimestamp(rows[pos])
    /\ IsOpening(rows[pos - 1])

\* C10 as stated: inputs that differ only in the payee column give the same
\* emitted transactions and the same output.
C10_PayeeUnused ==
    pc # "running" =>
        \A alt \in PayeeVariants(rows, 1..Len(rows)) :
            LET r == generateLedger(alt, init_date)
            IN  r.file = file /\ r.emitted = emitted

\* C10 amended: the payee column is unused in opening-balance and Transfer
\* rows only: inputs that differ only in the payee column of such rows give
\* the same emitted transactions and the same output; an Income or
\* Expense-archetype row is emitted with its payee column as payee, which
\* is printed in the title line of its block.
C10_PayeeUnusedInOpeningAndTransfer ==
    /\ pc # "running" =>
          \A alt \in PayeeVariants(rows, {i \in 1..Len(rows) :
                                            rows[i].category \in {SYSTEM, Transfer}}) :
              LET r == generateLedger(alt, init_date)
              IN  r.file = file /\ r.emitted = emitted
    /\ \A i \in 1..Len(blocks) :
          rows[src[i]].category \notin {SYSTEM, Transfer} =>
              /\ emitted[i].payee = rows[src[i]].payee
              /\ Lines(blocks[i])[1] =
                     StrfDate(emitted[i].time) \o <<" ", "*", " ">> \o rows[src[i]].payee

C10_Witness ==
    /\ pc = "done"
    /\ \E i \in 1..Len(emitted) : rows[src[i]].category = SYSTEM
    /\ \E i \in 1..Len(emitted) : rows[src[i]].category = Transfer
    /\ \E i \in 1..Len(emitted) : rows[src[i]].category = Income

====
